---- MODULE Spec2Model ----
(***************************************************************************)
(* Model of the address -> coordinates -> FIPS -> ADI pipeline             *)
(* (Location.py, main.py).                                                 *)
(*                                                                         *)
(* Python strings are modelled as sequences of one-character strings, so   *)
(* that substring tests, upper(), lstrip(), slicing and the GISJOIN        *)
(* regular expression are computed character by character.  Python's None  *)
(* is the value None below; floating point coordinates are opaque to the   *)
(* program (they are only stored and forwarded) and are modelled as        *)
(* opaque values.                                                          *)
(***************************************************************************)
EXTENDS Integers, Sequences, FiniteSets, TLC

VARIABLES
    loc,            \* the Location object under test (Spec)
    last,           \* the last operation applied to loc: inputs, pre-state, result, external events (Spec)
    adi_files_data, \* the list of loaded ADI datasets, read-only (Spec, MainSpec)
    locations,      \* main(): the list of Location objects (MainSpec)
    idx,            \* main(): 1-based position of the loop (MainSpec)
    pc,             \* main(): the statement about to run (MainSpec)
    log,            \* main(): the stages run so far, in order, each with its external events (MainSpec)
    output,         \* main(): the rows handed to the CSV writer (MainSpec)
    gisjoin,        \* the argument of _gisjoin_to_fips (GisSpec)
    gj              \* the outcome of _gisjoin_to_fips (GisSpec)

vars == <<loc, last, adi_files_data, locations, idx, pc, log, output, gisjoin, gj>>

(***************************************************************************)
(* Strings                                                                 *)
(***************************************************************************)
None == "None"

LowerChars == <<"a","b","c","d","e","f","g","h","i","j","k","l","m",
                "n","o","p","q","r","s","t","u","v","w","x","y","z">>
UpperChars == <<"A","B","C","D","E","F","G","H","I","J","K","L","M",
                "N","O","P","Q","R","S","T","U","V","W","X","Y","Z">>

\* string.digits
DIGITS == <<"0","1","2","3","4","5","6","7","8","9">>

IsDigit(c) == \E d \in 1..Len(DIGITS) : DIGITS[d] = c

UpperChar(c) ==
    IF \E k \in 1..Len(LowerChars) : LowerChars[k] = c
    THEN UpperChars[CHOOSE k \in 1..Len(LowerChars) : LowerChars[k] = c]
    ELSE c

\* str.upper()
Upper(s) == [k \in 1..Len(s) |-> UpperChar(s[k])]

\* Python's  sub in s
Contains(sub, s) ==
    \E k \in 0..(Len(s) - Len(sub)) : SubSeq(s, k + 1, k + Len(sub)) = sub

\* " ".join(parts)
RECURSIVE JoinSpace(_)
JoinSpace(parts) ==
    IF Len(parts) = 0 THEN <<>>
    ELSE IF Len(parts) = 1 THEN parts[1]
    ELSE parts[1] \o <<" ">> \o JoinSpace(Tail(parts))

LStripOneDigit(s) == IF Len(s) > 0 /\ IsDigit(s[1]) THEN Tail(s) ELSE s

\* str.lstrip(DIGITS): removes every leading character that is in DIGITS
RECURSIVE LStripDigits(_)
LStripDigits(s) ==
    IF Len(s) > 0 /\ IsDigit(s[1]) THEN LStripDigits(Tail(s)) ELSE s

\* s[:n]
Prefix(s, n) == SubSeq(s, 1, IF Len(s) < n THEN Len(s) ELSE n)

(***************************************************************************)
(* Location.py: module constants                                           *)
(***************************************************************************)
_PO_BOX_CHECKS == {
    <<"P","O","B","O","X">>,
    <<"P","O"," ","B","O","X">>,
    <<"P"," ","O"," ","B","O","X">>,
    <<"P",".","O"," ","B","O","X">>,
    <<"P",".","O","B","O","X">>,
    <<"P","."," ","O"," ","B","O","X">>,
    <<"P","O","."," ","B","O","X">>,
    <<"P","O",".","B","O","X">>,
    <<"P"," ","O","."," ","B","O","X">>,
    <<"P",".","O","."," ","B","O","X">>,
    <<"P","."," ","O","."," ","B","O","X">>,
    <<"P",".","O",".","B","O","X">>
}

_MILITARY_MAIL_POST_OFFICE == { <<"A","P","O">>, <<"F","P","O">>, <<"D","P","O">> }
_MILITARY_MAIL_STATES == { <<"A","A">>, <<"A","P">>, <<"A","E">> }

PSC_ == <<"P","S","C"," ">>

\* main.py: CENSUS_YEAR
CENSUS_YEAR == 2020

(***************************************************************************)
(* Location: the dataclass and its methods                                 *)
(***************************************************************************)
\* Location(street, apt_num, city, state, zip, CENSUS_YEAR) with the default
\* derived fields.  adi_data is an insertion-ordered dict: a sequence of
\* entries [k |-> version, v |-> <<state rank, national rank>>].
Location(street, apt_num, city, state, zipcode, census_year) ==
    [ street |-> street, apt_num |-> apt_num, city |-> city, state |-> state,
      zipcode |-> zipcode, census_year |-> census_year,
      latitude |-> None, longitude |-> None,
      fips |-> <<>>,
      adi_data |-> <<>> ]

get_full_address(self) ==
    JoinSpace(<<self.street, self.apt_num, self.city, self.state, self.zipcode>>)

can_geocode_no_upper(self) ==
    LET is_military_address ==
            \/ \E i \in _MILITARY_MAIL_POST_OFFICE : Contains(i, self.city)
            \/ self.state \in _MILITARY_MAIL_STATES
            \/ Contains(PSC_, self.street)
        street_has_po_box == \E i \in _PO_BOX_CHECKS : Contains(i, self.street)
    IN  /\ Len(self.street) > 0
        /\ Len(self.city) > 0
        /\ Len(self.state) > 0
        /\ ~is_military_address
        /\ ~street_has_po_box

can_geocode(self) ==
    LET _street_upper == Upper(self.street)
        _city_upper == Upper(self.city)
        _state_upper == Upper(self.state)
        is_military_address ==
            \/ \E i \in _MILITARY_MAIL_POST_OFFICE : Contains(i, _city_upper)
            \/ _state_upper \in _MILITARY_MAIL_STATES
            \/ Contains(PSC_, _street_upper)
        street_has_po_box == \E i \in _PO_BOX_CHECKS : Contains(i, _street_upper)
    IN  /\ Len(self.street) > 0
        /\ Len(self.city) > 0
        /\ Len(self.state) > 0
        /\ ~is_military_address
        /\ ~street_has_po_box


(***************************************************************************)
(* External events of one method call, in the order the code makes them    *)
(***************************************************************************)
\* time.sleep(0.5 + random.random())
EvSleep == [ev |-> "sleep", arg |-> <<>>]
\* geocoder.geocode(query=q)
EvGeocode(q) == [ev |-> "geocode", arg |-> q]
\* requests.get(url=FCC_API_URL, params=urlencode({latitude, longitude, censusYear, format}))
EvFcc(lat, lng, year) == [ev |-> "fcc", arg |-> <<lat, lng, year>>]
\* fips_for_lookup in loaded_adi_data
EvLookup(version, key) == [ev |-> "lookup", arg |-> <<version, key>>]
\* the "Invalid FIPS length" branch
EvInvalidFips == [ev |-> "invalid_fips_length", arg |-> <<>>]

IsExternalCall(e) == e.ev \in {"geocode", "fcc"}

\* The outcome of a method: the object afterwards, the value returned, the
\* events, and whether an exception left the method.
Outcome(self, ret, events, exc) ==
    [self |-> self, ret |-> ret, events |-> events, exc |-> exc]

(***************************************************************************)
(* The geocoding collaborator: what one geocode() call may do              *)
(***************************************************************************)
GeoNone == [kind |-> "none", has_geometry |-> FALSE, location |-> <<>>]
GeoRaise == [kind |-> "raise", has_geometry |-> FALSE, location |-> <<>>]
\* a result whose raw payload lacks ["geometry"]["location"]
GeoNoGeometry == [kind |-> "result", has_geometry |-> FALSE, location |-> <<>>]
\* a result whose raw["geometry"]["location"] is the dict `location`
GeoResult(location) == [kind |-> "result", has_geometry |-> TRUE, location |-> location]

LatValues == {"33.64"}
LngValues == {"-117.84"}

GeoLocations ==
    { <<>> }
    \cup { [k \in {"lat"} |-> la] : la \in LatValues }
    \cup { [k \in {"lng"} |-> lo] : lo \in LngValues }
    \cup { [k \in {"lat", "lng"} |-> IF k = "lat" THEN la ELSE lo] :
             la \in LatValues, lo \in LngValues }

GeocodeResponses ==
    {GeoNone, GeoRaise, GeoNoGeometry} \cup { GeoResult(l) : l \in GeoLocations }

(***************************************************************************)
(* Location.get_latlong                                                    *)
(***************************************************************************)
\* lines 110-115: location_query_result is not None
get_latlong_extract(self, result, events) ==
    IF ~result.has_geometry \/ "lat" \notin DOMAIN result.location
    THEN Outcome(self, <<>>, events, TRUE)                       \* KeyError
    ELSE LET s1 == [self EXCEPT !.latitude = result.location["lat"]]
         IN  IF "lng" \notin DOMAIN result.location
             THEN Outcome(s1, <<>>, events, TRUE)                \* KeyError after latitude is set
             ELSE LET s2 == [s1 EXCEPT !.longitude = result.location["lng"]]
                  IN  Outcome(s2, <<s2.latitude, s2.longitude>>, events, FALSE)

\* the body of the try block, lines 99-115; r1 and r2 are what the geocoder
\* does on the first and (if it is made) the second geocode() call
get_latlong_try(self, r1, r2) ==
    LET full_address == get_full_address(self)
        ev1 == <<EvSleep, EvGeocode(full_address)>>
    IN  IF r1.kind = "raise" THEN Outcome(self, <<>>, ev1, TRUE)
        ELSE IF r1.kind = "none"
        THEN LET alternate_address == LStripDigits(full_address)
                 ev2 == Append(ev1, EvGeocode(alternate_address))
             IN  IF r2.kind = "raise" THEN Outcome(self, <<>>, ev2, TRUE)
                 ELSE IF r2.kind = "none" THEN Outcome(self, <<>>, ev2, FALSE)
                 ELSE get_latlong_extract(self, r2, ev2)
        ELSE get_latlong_extract(self, r1, ev1)

get_latlong_uncaught(self, r1, r2) ==
    IF can_geocode(self) THEN get_latlong_try(self, r1, r2)
    ELSE Outcome(self, <<>>, <<>>, FALSE)

get_latlong_unchecked(self, r1, r2) ==
    LET t == get_latlong_try(self, r1, r2)
    IN  IF t.exc THEN Outcome(t.self, <<>>, t.events, FALSE) ELSE t

get_latlong(self, r1, r2) ==
    IF can_geocode(self)
    THEN LET t == get_latlong_try(self, r1, r2)
         IN  IF t.exc
             THEN Outcome(t.self, <<>>, t.events, FALSE)   \* except Exception: print; return ()
             ELSE t
    ELSE Outcome(self, <<>>, <<>>, FALSE)

(***************************************************************************)
(* The census-block lookup collaborator (FCC Area API)                     *)
(***************************************************************************)
\* A JSON value in the "FIPS" field: null, or a string.
JsonNull == [isnull |-> TRUE, s |-> <<>>]
JsonStr(s) == [isnull |-> FALSE, s |-> s]
Truthy(v) == ~v.isnull /\ Len(v.s) > 0

\* status: "transport_error" (requests.get raises), "bad_json" (.json() raises), "ok"
\* block: "absent" ("Block" not in data), "null" (data["Block"] is null), "dict"
FccResponse(status, isdict, block, has_FIPS, FIPS) ==
    [status |-> status, isdict |-> isdict, block |-> block, has_FIPS |-> has_FIPS, FIPS |-> FIPS]

MaxFipsLen == 15

\* a digit string of length n
MkFips(n, a) == [k \in 1..n |-> DIGITS[((k * a) % 10) + 1]]

\* the lengths the code accepts (12, 14, 15), those between and beyond, and a short one
FipsStrings == { MkFips(n, 3) : n \in 12..MaxFipsLen } \cup { MkFips(14, 7), MkFips(5, 3) }

FccResponses ==
    { FccResponse("transport_error", FALSE, "absent", FALSE, JsonNull),
      FccResponse("bad_json", FALSE, "absent", FALSE, JsonNull),
      FccResponse("ok", FALSE, "absent", FALSE, JsonNull),
      FccResponse("ok", TRUE, "absent", FALSE, JsonNull),
      FccResponse("ok", TRUE, "null", FALSE, JsonNull),
      FccResponse("ok", TRUE, "dict", FALSE, JsonNull),
      FccResponse("ok", TRUE, "dict", TRUE, JsonNull),
      FccResponse("ok", TRUE, "dict", TRUE, JsonStr(<<>>)) }
    \cup { FccResponse("ok", TRUE, "dict", TRUE, JsonStr(f)) : f \in FipsStrings }

(***************************************************************************)
(* Location.get_fips                                                       *)
(***************************************************************************)
\* the body of the try block, lines 142-158
get_fips_try(self, resp) ==
    LET events == <<EvSleep, EvFcc(self.latitude, self.longitude, self.census_year)>>
    IN  IF resp.status # "ok" THEN Outcome(self, <<>>, events, TRUE)
        ELSE IF resp.isdict /\ resp.block = "null"
        THEN Outcome(self, <<>>, events, TRUE)       \* "FIPS" in None: TypeError
        ELSE IF resp.isdict /\ resp.block = "dict" /\ resp.has_FIPS
        THEN IF Truthy(resp.FIPS)
             THEN Outcome([self EXCEPT !.fips = resp.FIPS.s], resp.FIPS.s, events, FALSE)
             ELSE Outcome(self, <<>>, events, FALSE)
        ELSE Outcome(self, <<>>, events, FALSE)

get_fips(self, resp) ==
    IF self.latitude = None \/ self.longitude = None
    THEN Outcome(self, <<>>, <<>>, FALSE)
    ELSE LET t == get_fips_try(self, resp)
         IN  IF t.exc
             THEN Outcome(t.self, <<>>, t.events, FALSE)   \* except Exception: print; return ""
             ELSE t


(***************************************************************************)
(* Python dict, insertion ordered: a sequence of entries [k, v]            *)
(***************************************************************************)
DictKeys(d) == { d[n].k : n \in 1..Len(d) }
DictGet(d, key) == d[CHOOSE n \in 1..Len(d) : d[n].k = key].v
\* d[key] = value
DictSet(d, key, value) ==
    IF key \in DictKeys(d)
    THEN [n \in 1..Len(d) |-> IF d[n].k = key THEN [k |-> key, v |-> value] ELSE d[n]]
    ELSE Append(d, [k |-> key, v |-> value])

(***************************************************************************)
(* Location.get_adi                                                        *)
(***************************************************************************)
\* lines 178-196: the key looked up for a stored FIPS code; ok = FALSE is the
\* "Invalid FIPS length" branch
fips_for_lookup_no_pad(fips) ==
    IF Len(fips) = 12 THEN [ok |-> TRUE, key |-> fips]
    ELSE IF Len(fips) = 14 THEN [ok |-> TRUE, key |-> Prefix(fips, 12)]
    ELSE IF Len(fips) = 15 THEN [ok |-> TRUE, key |-> Prefix(fips, 12)]
    ELSE [ok |-> FALSE, key |-> <<>>]

fips_for_lookup(fips) ==
    IF Len(fips) = 12 THEN [ok |-> TRUE, key |-> fips]
    ELSE IF Len(fips) = 14 THEN [ok |-> TRUE, key |-> Prefix(<<"0">> \o fips, 12)]
    ELSE IF Len(fips) = 15 THEN [ok |-> TRUE, key |-> Prefix(fips, 12)]
    ELSE [ok |-> FALSE, key |-> <<>>]

\* the for loop, lines 172-199, from the n-th dataset on; a dataset is
\* <<version, dict>>, the dict a function from 12-character keys to rank pairs
RECURSIVE get_adi_loop(_, _, _, _)
get_adi_loop(self, local_adi_file_data, n, events) ==
    IF n > Len(local_adi_file_data)
    THEN Outcome(self, self.adi_data, events, FALSE)
    ELSE LET loaded_adi_version == local_adi_file_data[n][1]
             loaded_adi_data == local_adi_file_data[n][2]
             norm == fips_for_lookup(self.fips)
         IN  IF ~norm.ok
             THEN Outcome(self, <<>>, Append(events, EvInvalidFips), FALSE)   \* return ()
             ELSE LET ev == Append(events, EvLookup(loaded_adi_version, norm.key))
                      s1 == IF norm.key \in DOMAIN loaded_adi_data
                            THEN [self EXCEPT !.adi_data =
                                    DictSet(@, loaded_adi_version, loaded_adi_data[norm.key])]
                            ELSE self
                  IN  get_adi_loop(s1, local_adi_file_data, n + 1, ev)

get_adi_first_only(self, local_adi_file_data) ==
    IF Len(self.fips) = 0
    THEN Outcome(self, <<>>, <<>>, FALSE)
    ELSE get_adi_loop(self, Prefix(local_adi_file_data, 1), 1, <<>>)

get_adi(self, local_adi_file_data) ==
    IF Len(self.fips) = 0
    THEN Outcome(self, <<>>, <<>>, FALSE)                 \* return dict()
    ELSE get_adi_loop(self, local_adi_file_data, 1, <<>>)

(***************************************************************************)
(* Location.prep_for_output                                                *)
(***************************************************************************)
\* one_row_data: asdict(self) without "adi_data", plus the three ADI columns
OutputRow(self, adi_version) ==
    [ street |-> self.street, apt_num |-> self.apt_num, city |-> self.city,
      state |-> self.state, zipcode |-> self.zipcode, census_year |-> self.census_year,
      latitude |-> self.latitude, longitude |-> self.longitude, fips |-> self.fips,
      adi_version |-> adi_version,
      adi_state |-> DictGet(self.adi_data, adi_version)[1],
      adi_national |-> DictGet(self.adi_data, adi_version)[2] ]

prep_for_output_first_entry(self) ==
    Outcome(self,
            [n \in 1..Len(self.adi_data) |-> OutputRow(self, self.adi_data[1].k)],
            <<>>, FALSE)

prep_for_output(self) ==
    Outcome(self,
            [n \in 1..Len(self.adi_data) |-> OutputRow(self, self.adi_data[n].k)],
            <<>>, FALSE)

\* write_output_csv, lines 168-170: the rows written, location by location
RECURSIVE write_output_rows(_)
write_output_rows(data) ==
    IF Len(data) = 0 THEN <<>>
    ELSE prep_for_output(Head(data)).ret \o write_output_rows(Tail(data))


(***************************************************************************)
(* Inputs: addresses and ADI datasets                                      *)
(***************************************************************************)
LowerChar(c) ==
    IF \E k \in 1..Len(UpperChars) : UpperChars[k] = c
    THEN LowerChars[CHOOSE k \in 1..Len(UpperChars) : UpperChars[k] = c]
    ELSE c
Lower(s) == [k \in 1..Len(s) |-> LowerChar(s[k])]

\* "P" <gap> "O" <gap> "BOX" for every punctuation/spacing gap: the twelve
\* spellings of _PO_BOX_CHECKS and four spellings that are not among them
PoGaps == { <<>>, <<" ">>, <<".">>, <<".", " ">> }
PoForm(a, b) == <<"P">> \o a \o <<"O">> \o b \o <<"B","O","X">>
PoForms == { PoForm(a, b) : a \in PoGaps, b \in PoGaps }

StreetInputs ==
    { <<"1"," ">> \o w \o <<" ","5">> : w \in PoForms \cup { Lower(w) : w \in PoForms } }
    \cup { <<>>,
           <<"1","2"," ","M","a","i","n"," ","S","t">>,
           <<"M","a","i","n"," ","S","t">>,
           <<"P","S","C"," ","3">>,
           <<"U","n","i","t"," ","p","s","c"," ","3">>,
           <<"P","S","C","3">> }

CityInputs ==
    { <<>>,
      <<"I","r","v","i","n","e">>,
      <<"A","P","O">>,
      <<"f","p","o">>,
      <<"D","p","o"," ","9">>,
      <<"N","a","p","o","l","i">> }

StateInputs ==
    { <<>>, <<"C","A">>, <<"P","A">>, <<"A","A">>, <<"a","p">>, <<"A","e">>, <<"A","A","A">> }

AptInput == <<>>
ZipInput == <<"9","2","6","9","7">>

AddressInputs ==
    { Location(s, AptInput, c, st, ZipInput, CENSUS_YEAR) :
        s \in StreetInputs, c \in CityInputs, st \in StateInputs }

\* the addresses of Spec: with and without a house number, a PO box, a
\* missing city, military mail
LocationInputs ==
    { Location(s, AptInput, c, st, ZipInput, CENSUS_YEAR) :
        s \in { <<"1","2"," ","M","a","i","n"," ","S","t">>,
                <<"M","a","i","n"," ","S","t">>,
                <<"1"," ">> \o PoForm(<<".">>, <<".", " ">>) \o <<" ","5">> },
        c \in { <<"I","r","v","i","n","e">>, <<>>, <<"A","P","O">> },
        st \in { <<"C","A">>, <<"A","A">> } }

\* ADI datasets as load_adi_data returns them: <<file stem, {fips: (state, national)}>>
Key12 == MkFips(12, 3)
Key14 == Prefix(<<"0">> \o MkFips(14, 3), 12)
Key14b == Prefix(<<"0">> \o MkFips(14, 7), 12)
KeyOther == MkFips(12, 9)

AdiSheet1 == << "CA_2020_v3.2",
                [k \in {Key12, Key14b} |-> IF k = Key12 THEN <<"1", "2">> ELSE <<"GQ", "GQ">>] >>
AdiSheet2 == << "US_2022_v4_0_1",
                [k \in {Key12, Key14, KeyOther} |->
                    IF k = Key12 THEN <<"QDI", "QDI">>
                    ELSE IF k = Key14 THEN <<"4", "64">> ELSE <<"PH", "PH">>] >>
AdiSheet3 == << "US_2023_v4_0_2",
                [k \in {Key14, Key14b} |-> IF k = Key14 THEN <<"7", "70">> ELSE <<"9", "91">>] >>
AdiSheet4 == << "TX_2023_v4_0_2", [k \in {KeyOther} |-> <<"3", "33">>] >>
AdiSheetPool == <<AdiSheet1, AdiSheet2, AdiSheet3, AdiSheet4>>

MaxAdiFiles == 2

\* the lists load_adi_data may return: zero, one or many files
AdiFileLists ==
    LET m == IF MaxAdiFiles < Len(AdiSheetPool) THEN MaxAdiFiles ELSE Len(AdiSheetPool)
    IN  { Prefix(AdiSheetPool, n) : n \in 0..m }
        \cup { <<AdiSheetPool[n]>> : n \in 1..m }

(***************************************************************************)
(* Spec: one Location and any sequence of calls of its methods             *)
(***************************************************************************)
Call(op, pre, arg, o) ==
    [op |-> op, pre |-> pre, arg |-> arg, ret |-> o.ret, events |-> o.events, exc |-> o.exc]

NoLast(l) == Call("new", l, <<>>, Outcome(l, <<>>, <<>>, FALSE))

MainIdle ==
    /\ locations = <<>>
    /\ idx = 0
    /\ pc = "idle"
    /\ log = <<>>
    /\ output = <<>>

GisIdle ==
    /\ gisjoin = <<>>
    /\ gj = [state |-> "idle", ret |-> <<>>, exc |-> FALSE]

Init ==
    /\ loc \in LocationInputs
    /\ last = NoLast(loc)
    /\ adi_files_data \in AdiFileLists
    /\ MainIdle
    /\ GisIdle

others == <<adi_files_data, locations, idx, pc, log, output, gisjoin, gj>>

CanGeocode ==
    /\ loc' = loc
    /\ last' = Call("can_geocode", loc, <<>>, Outcome(loc, can_geocode(loc), <<>>, FALSE))
    /\ UNCHANGED others

GetLatLong ==
    \E r1 \in GeocodeResponses :
      \E r2 \in (IF r1.kind = "none" THEN GeocodeResponses ELSE {GeoNone}) :
        LET o == get_latlong(loc, r1, r2)
        IN  /\ loc' = o.self
            /\ last' = Call("get_latlong", loc, <<r1, r2>>, o)
            /\ UNCHANGED others

GetFips ==
    \E resp \in FccResponses :
        LET o == get_fips(loc, resp)
        IN  /\ loc' = o.self
            /\ last' = Call("get_fips", loc, resp, o)
            /\ UNCHANGED others

GetAdi ==
    LET o == get_adi(loc, adi_files_data)
    IN  /\ loc' = o.self
        /\ last' = Call("get_adi", loc, <<>>, o)
        /\ UNCHANGED others

PrepForOutput ==
    LET o == prep_for_output(loc)
    IN  /\ loc' = o.self
        /\ last' = Call("prep_for_output", loc, <<>>, o)
        /\ UNCHANGED others

Next == CanGeocode \/ GetLatLong \/ GetFips \/ GetAdi \/ PrepForOutput

Spec == Init /\ [][Next]_vars


(***************************************************************************)
(* EligSpec: can_geocode on every combination of street, city and state    *)
(***************************************************************************)
EligInit ==
    /\ loc \in AddressInputs
    /\ last = NoLast(loc)
    /\ adi_files_data = <<>>
    /\ MainIdle
    /\ GisIdle

EligNext == CanGeocode

EligSpec == EligInit /\ [][EligNext]_vars

(***************************************************************************)
(* main.py: _gisjoin_to_fips                                               *)
(***************************************************************************)
\* _GISJOIN_REGEX.search(gisjoin) for "^G([0-9]{2})0([0-9]{3})0([0-9]{7})$":
\* "^" anchors the match at the start, "$" matches at the end of the string
\* and also just before a newline that ends the string.
_GISJOIN_REGEX_search(s) ==
    LET n == IF Len(s) = 16 /\ s[16] = "\n" THEN 15 ELSE Len(s)
        matched ==
            /\ n = 15
            /\ s[1] = "G"
            /\ \A k \in 2..3 : IsDigit(s[k])
            /\ s[4] = "0"
            /\ \A k \in 5..7 : IsDigit(s[k])
            /\ s[8] = "0"
            /\ \A k \in 9..15 : IsDigit(s[k])
    IN  IF matched
        THEN [matched |-> TRUE,
              groups |-> <<SubSeq(s, 2, 3), SubSeq(s, 5, 7), SubSeq(s, 9, 15)>>]
        ELSE [matched |-> FALSE, groups |-> <<>>]      \* search() returns None

\* lines 79-88; exc = TRUE: an exception leaves the function
_gisjoin_to_fips(s) ==
    LET m == _GISJOIN_REGEX_search(s)
    IN  IF ~m.matched
        THEN [state |-> "raised", ret |-> <<>>, exc |-> TRUE]    \* None.groups(): AttributeError
        ELSE LET parsed_groups == m.groups
             IN  IF /\ Len(parsed_groups) = 3
                    /\ Len(parsed_groups[1]) = 2
                    /\ Len(parsed_groups[2]) = 3
                    /\ Len(parsed_groups[3]) = 7
                 THEN [state |-> "returned",
                       ret |-> parsed_groups[1] \o parsed_groups[2] \o parsed_groups[3],
                       exc |-> FALSE]
                 ELSE [state |-> "returned", ret |-> <<>>, exc |-> FALSE]

\* GISJOIN inputs: well-formed strings, and each of them with one character
\* replaced, the last one dropped, a character added in front or behind
GisStates == { <<"0","1">>, <<"3","6">> }
GisCounties == { <<"0","0","1">>, <<"0","5","9">> }
GisRest == { <<"0","2","0","8","0","3","2">>, <<"9","9","0","0","0","0","0">> }
GisWellFormed ==
    { <<"G">> \o a \o <<"0">> \o b \o <<"0">> \o c :
        a \in GisStates, b \in GisCounties, c \in GisRest }
GisChars == { "G", "0", "7", "x", " " }
GisjoinInputs ==
    GisWellFormed
    \cup { [w EXCEPT ![k] = c] : w \in GisWellFormed, k \in 1..15, c \in GisChars }
    \cup { SubSeq(w, 1, 14) : w \in GisWellFormed }
    \cup { Append(w, c) : w \in GisWellFormed, c \in GisChars \cup {"\n"} }
    \cup { <<c>> \o w : w \in GisWellFormed, c \in GisChars }
    \cup { <<>> }

GisInit ==
    /\ gisjoin \in GisjoinInputs
    /\ gj = [state |-> "idle", ret |-> <<>>, exc |-> FALSE]
    /\ loc = Location(<<>>, <<>>, <<>>, <<>>, <<>>, CENSUS_YEAR)
    /\ last = NoLast(loc)
    /\ adi_files_data = <<>>
    /\ MainIdle

GisjoinToFips ==
    /\ gj.state = "idle"
    /\ gj' = _gisjoin_to_fips(gisjoin)
    /\ UNCHANGED <<loc, last, adi_files_data, locations, idx, pc, log, output, gisjoin>>

GisNext == GisjoinToFips

GisSpec == GisInit /\ [][GisNext]_vars


(***************************************************************************)
(* MainSpec: main(), the loop over the addresses                           *)
(***************************************************************************)
MaxAddresses == 2

\* the rows of addresses.csv: an address that can be geocoded and a PO box
MainAddressPool ==
    { Location(s, AptInput, <<"I","r","v","i","n","e">>, <<"C","A">>, ZipInput, CENSUS_YEAR) :
        s \in { <<"1","2"," ","M","a","i","n"," ","S","t">>,
                <<"P","O"," ","B","o","x"," ","7">> } }

RECURSIVE ListsOf(_, _)
ListsOf(S, n) ==
    IF n = 0 THEN { <<>> }
    ELSE { <<>> } \cup { <<x>> \o l : x \in S, l \in ListsOf(S, n - 1) }

\* what the collaborators do while main() runs: no match, an exception, a
\* result, a result without "lng"; a transport failure, a malformed or empty
\* response, FIPS codes of valid and invalid length
MainGeocodeResponses ==
    { GeoNone, GeoRaise, GeoNoGeometry,
      GeoResult([k \in {"lat"} |-> "33.64"]),
      GeoResult([k \in {"lat", "lng"} |-> IF k = "lat" THEN "33.64" ELSE "-117.84"]) }

MainFccResponses ==
    { FccResponse("transport_error", FALSE, "absent", FALSE, JsonNull),
      FccResponse("bad_json", FALSE, "absent", FALSE, JsonNull),
      FccResponse("ok", FALSE, "absent", FALSE, JsonNull),
      FccResponse("ok", TRUE, "null", FALSE, JsonNull),
      FccResponse("ok", TRUE, "dict", TRUE, JsonNull),
      FccResponse("ok", TRUE, "dict", TRUE, JsonStr(MkFips(13, 3))),
      FccResponse("ok", TRUE, "dict", TRUE, JsonStr(MkFips(15, 3))) }

MainInit ==
    /\ locations \in ListsOf(MainAddressPool, MaxAddresses)
    /\ adi_files_data \in AdiFileLists
    /\ idx = 0
    /\ pc = "start"
    /\ log = <<>>
    /\ output = <<>>
    /\ loc = Location(<<>>, <<>>, <<>>, <<>>, <<>>, CENSUS_YEAR)
    /\ last = NoLast(loc)
    /\ GisIdle

mainOthers == <<loc, last, adi_files_data, gisjoin, gj>>

\* one entry of the log: the method called on locations[i] and its external events
Stage(i, stage, events) == [i |-> i, stage |-> stage, events |-> events]

\* lines 176-189: the early returns, then the first iteration of the loop
MainStart ==
    /\ pc = "start"
    /\ IF Len(locations) = 0 \/ Len(adi_files_data) = 0
       THEN /\ pc' = "returned"
            /\ idx' = idx
       ELSE /\ pc' = "get_latlong"
            /\ idx' = 1
    /\ UNCHANGED <<locations, log, output>>
    /\ UNCHANGED mainOthers

\* line 194; an exception that leaves the method ends main()
MainGetLatLong ==
    /\ pc = "get_latlong"
    /\ \E r1 \in MainGeocodeResponses :
         \E r2 \in (IF r1.kind = "none" THEN MainGeocodeResponses ELSE {GeoNone}) :
           LET o == get_latlong(locations[idx], r1, r2)
           IN  /\ locations' = [locations EXCEPT ![idx] = o.self]
               /\ pc' = IF o.exc THEN "aborted" ELSE "get_fips"
               /\ log' = Append(log, Stage(idx, "get_latlong", o.events))
    /\ UNCHANGED <<idx, output>>
    /\ UNCHANGED mainOthers

\* line 196
MainGetFips ==
    /\ pc = "get_fips"
    /\ \E resp \in MainFccResponses :
         LET o == get_fips(locations[idx], resp)
         IN  /\ locations' = [locations EXCEPT ![idx] = o.self]
             /\ pc' = IF o.exc THEN "aborted" ELSE "get_adi"
             /\ log' = Append(log, Stage(idx, "get_fips", o.events))
    /\ UNCHANGED <<idx, output>>
    /\ UNCHANGED mainOthers

\* line 198, then the next iteration or the end of the loop
MainGetAdi ==
    /\ pc = "get_adi"
    /\ LET o == get_adi(locations[idx], adi_files_data)
       IN  /\ locations' = [locations EXCEPT ![idx] = o.self]
           /\ IF o.exc
              THEN pc' = "aborted" /\ idx' = idx
              ELSE IF idx < Len(locations)
              THEN pc' = "get_latlong" /\ idx' = idx + 1
              ELSE pc' = "write" /\ idx' = idx
           /\ log' = Append(log, Stage(idx, "get_adi", o.events))
    /\ UNCHANGED output
    /\ UNCHANGED mainOthers

\* lines 199-202
MainWrite ==
    /\ pc = "write"
    /\ output' = write_output_rows(locations)
    /\ pc' = "done"
    /\ UNCHANGED <<locations, idx, log>>
    /\ UNCHANGED mainOthers

MainNext == MainStart \/ MainGetLatLong \/ MainGetFips \/ MainGetAdi \/ MainWrite

MainSpec == MainInit /\ [][MainNext]_vars

\* main() is one sequential thread: a statement that can run does run
FairMainSpec == MainSpec /\ WF_vars(MainNext)


(***************************************************************************)
(* Properties                                                              *)
(***************************************************************************)
IsGeocode(e) == e.ev = "geocode"
IsLookup(e) == e.ev = "lookup"

\* the queries of the geocode() calls of the last method call, in order
LastQueries ==
    LET calls == SelectSeq(last.events, IsGeocode)
    IN  [k \in 1..Len(calls) |-> calls[k].arg]

\* the keys looked up by the last method call
LastLookupKeys ==
    { last.events[k].arg[2] : k \in { j \in 1..Len(last.events) : IsLookup(last.events[j]) } }

\* C1: in every reachable state of a Location, whatever the geocoder does,
\* latitude and longitude are either both present or both absent.
C1_LatLongTogether ==
    (loc.latitude = None) <=> (loc.longitude = None)

\* G + 2 digits + 0 + 3 digits + 0 + 7 digits
GisjoinPattern(s) ==
    /\ Len(s) = 15
    /\ s[1] = "G" /\ s[4] = "0" /\ s[8] = "0"
    /\ \A k \in {2, 3, 5, 6, 7} \cup 9..15 : IsDigit(s[k])

\* C2: _gisjoin_to_fips returns the 12 digits of the three groups when the
\* string matches the pattern, and returns the empty string without raising
\* when it does not.
C2_GisjoinNeverRaises ==
    gj.state # "idle" =>
        /\ ~gj.exc
        /\ IF GisjoinPattern(gisjoin)
           THEN gj.ret = SubSeq(gisjoin, 2, 3) \o SubSeq(gisjoin, 5, 7) \o SubSeq(gisjoin, 9, 15)
           ELSE gj.ret = <<>>

\* C3: every external call (each geocode request, the fallback retry
\* included, and each census-block request) is preceded by a sleep taken
\* since the previous external call.
C3_SleepBeforeEveryCall ==
    \A k \in 1..Len(last.events) :
        IsExternalCall(last.events[k]) =>
            \E j \in 1..(k - 1) :
                /\ last.events[j].ev = "sleep"
                /\ \A m \in (j + 1)..(k - 1) : ~IsExternalCall(last.events[m])

\* C4: can_geocode is false if street, city or state is empty, or the
\* uppercased city contains APO, FPO or DPO, or the uppercased state is
\* exactly AA, AP or AE, or the uppercased street contains "PSC " or one of
\* the twelve PO-box spellings; it is true in every other case, and it
\* changes no field of the record.
C4_CanGeocode ==
    last.op = "can_geocode" =>
        LET a == last.pre
            ineligible ==
                \/ a.street = <<>> \/ a.city = <<>> \/ a.state = <<>>
                \/ Contains(<<"A","P","O">>, Upper(a.city))
                \/ Contains(<<"F","P","O">>, Upper(a.city))
                \/ Contains(<<"D","P","O">>, Upper(a.city))
                \/ Upper(a.state) = <<"A","A">>
                \/ Upper(a.state) = <<"A","P">>
                \/ Upper(a.state) = <<"A","E">>
                \/ Contains(<<"P","S","C"," ">>, Upper(a.street))
                \/ \E v \in _PO_BOX_CHECKS : Contains(v, Upper(a.street))
        IN  /\ Cardinality(_PO_BOX_CHECKS) = 12
            /\ last.ret = ~ineligible
            /\ loc = a

\* a lower-case PO box in an otherwise complete, non-military address is refused
C4_Witness ==
    /\ last.op = "can_geocode"
    /\ last.ret = FALSE
    /\ loc.city = <<"I","r","v","i","n","e">>
    /\ loc.state = <<"C","A">>
    /\ loc.street = <<"1"," ","p",".","o","."," ","b","o","x"," ","5">>

\* C5: the key get_adi looks up is the stored FIPS code when it has 12
\* characters, "0" + code cut to 12 characters when it has 14, the first 12
\* characters when it has 15; with any other length nothing is looked up
\* and the call is abandoned.  The stored FIPS code is never changed.
C5_LookupKey ==
    last.op = "get_adi" =>
        LET f == last.pre.fips
            valid == Len(f) \in {12, 14, 15}
        IN  /\ loc.fips = f
            /\ Len(f) = 12 => LastLookupKeys \subseteq {f}
            /\ Len(f) = 14 =>
                 \A key \in LastLookupKeys :
                    /\ Len(key) = 12
                    /\ key[1] = "0"
                    /\ \A k \in 2..12 : key[k] = f[k - 1]
            /\ Len(f) = 15 =>
                 \A key \in LastLookupKeys :
                    /\ Len(key) = 12
                    /\ \A k \in 1..12 : key[k] = f[k]
            /\ valid => Len(SelectSeq(last.events, IsLookup)) = Len(adi_files_data)
            /\ ~valid => /\ LastLookupKeys = {}
                         /\ last.ret = <<>>
                         /\ loc = last.pre

\* a 14-character code was looked up, found, and is still stored with 14 characters
C5_Witness ==
    /\ last.op = "get_adi"
    /\ Len(last.pre.fips) = 14
    /\ LastLookupKeys # {}
    /\ Len(last.pre.adi_data) = 0
    /\ Len(loc.adi_data) > 0
    /\ Len(loc.fips) = 14

\* q is s without its leading digit characters
IsDigitStripped(q, s) ==
    \E n \in 0..Len(s) :
        /\ q = SubSeq(s, n + 1, Len(s))
        /\ \A k \in 1..n : IsDigit(s[k])
        /\ n < Len(s) => ~IsDigit(s[n + 1])

\* C6: get_latlong on an eligible address: when the first query (the full
\* address) yields no result, exactly one more query is made, for the full
\* address without its leading digits; a third query is never made, and
\* when the first query yields a result there is no second query.
C6_FallbackOnce ==
    (last.op = "get_latlong" /\ can_geocode(last.pre)) =>
        LET q == LastQueries
            full == get_full_address(last.pre)
            r1 == last.arg[1]
        IN  /\ Len(q) \in {1, 2}
            /\ q[1] = full
            /\ r1.kind = "none" => (Len(q) = 2 /\ IsDigitStripped(q[2], full))
            /\ r1.kind = "result" => Len(q) = 1

\* the first query found nothing and the retry dropped a house number
C6_Witness ==
    /\ last.op = "get_latlong"
    /\ last.arg[1].kind = "none"
    /\ Len(LastQueries) = 2
    /\ Len(LastQueries[2]) = Len(LastQueries[1]) - 2
    /\ loc.latitude # None
    /\ loc.longitude # None

\* C7: prep_for_output returns one row per entry of the ADI mapping (none
\* when it is empty), the rows have pairwise distinct adi_version, each
\* row's ranks are the pair stored under its adi_version, every row carries
\* the record's identity and derived fields, and the record is unchanged.
C7_OneRowPerEntry ==
    last.op = "prep_for_output" =>
        LET rows == last.ret
            a == last.pre
        IN  /\ loc = a
            /\ Len(rows) = Cardinality(DictKeys(a.adi_data))
            /\ \A m, n \in 1..Len(rows) : m # n => rows[m].adi_version # rows[n].adi_version
            /\ \A n \in 1..Len(rows) :
                 /\ rows[n].adi_version \in DictKeys(a.adi_data)
                 /\ <<rows[n].adi_state, rows[n].adi_national>> =
                        DictGet(a.adi_data, rows[n].adi_version)
                 /\ rows[n].street = a.street
                 /\ rows[n].apt_num = a.apt_num
                 /\ rows[n].city = a.city
                 /\ rows[n].state = a.state
                 /\ rows[n].zipcode = a.zipcode
                 /\ rows[n].census_year = a.census_year
                 /\ rows[n].latitude = a.latitude
                 /\ rows[n].longitude = a.longitude
                 /\ rows[n].fips = a.fips

\* a record matched in two datasets gave two rows with different ranks
C7_Witness ==
    /\ last.op = "prep_for_output"
    /\ Len(loc.adi_data) = 2
    /\ Len(last.ret) = 2
    /\ last.ret[1].adi_state # last.ret[2].adi_state

\* the stages of the first n addresses, in the order main() must run them
ExpectedStages(n) ==
    [k \in 1..(3 * n) |->
        << ((k - 1) \div 3) + 1,
           CASE (k - 1) % 3 = 0 -> "get_latlong"
             [] (k - 1) % 3 = 1 -> "get_fips"
             [] OTHER -> "get_adi" >>]

LogStages == [k \in 1..Len(log) |-> <<log[k].i, log[k].stage>>]

NormalizedKey(f) ==
    IF Len(f) = 14 THEN <<"0">> \o SubSeq(f, 1, 11) ELSE SubSeq(f, 1, 12)

\* C9: after get_adi on a Location whose ADI mapping was empty, the mapping
\* has an entry under version v exactly when the stored FIPS code is
\* non-empty, has length 12, 14 or 15 and its normalized key is in dataset
\* v, and the entry is the pair dataset v stores under that key; an empty
\* FIPS code makes the call a no-op with an empty result.
C9_AdiMatches ==
    (last.op = "get_adi" /\ last.pre.adi_data = <<>>) =>
        LET f == last.pre.fips
        IN  /\ \A n \in 1..Len(adi_files_data) :
                 LET v == adi_files_data[n][1]
                     d == adi_files_data[n][2]
                     hit == /\ Len(f) > 0
                            /\ Len(f) \in {12, 14, 15}
                            /\ NormalizedKey(f) \in DOMAIN d
                 IN  /\ (v \in DictKeys(loc.adi_data)) <=> hit
                     /\ hit => DictGet(loc.adi_data, v) = d[NormalizedKey(f)]
            /\ DictKeys(loc.adi_data) \subseteq
                 { adi_files_data[n][1] : n \in 1..Len(adi_files_data) }
            /\ Len(loc.adi_data) = Cardinality(DictKeys(loc.adi_data))
            /\ Len(f) = 0 => (last.ret = <<>> /\ last.events = <<>> /\ loc = last.pre)

\* the second of two datasets matched and the first did not
C9_Witness ==
    /\ last.op = "get_adi"
    /\ last.pre.adi_data = <<>>
    /\ Len(adi_files_data) = 2
    /\ DictKeys(loc.adi_data) = { adi_files_data[2][1] }

\* the log entries of address n
StagesOf(n) == { k \in 1..Len(log) : log[k].i = n }

RECURSIVE RowsOfEligible(_)
RowsOfEligible(ls) ==
    IF Len(ls) = 0 THEN 0
    ELSE (IF can_geocode(Head(ls)) THEN Len(Head(ls).adi_data) ELSE 0)
         + RowsOfEligible(Tail(ls))

\* C10: for an address that cannot be geocoded, the whole pipeline calls
\* neither the geocoder nor the census-block service, leaves latitude,
\* longitude, FIPS code and ADI mapping at their defaults, and writes no row.
C10_IneligibleUntouched ==
    \A n \in 1..Len(locations) :
        ~can_geocode(locations[n]) =>
            /\ \A k \in StagesOf(n) : log[k].events = <<>>
            /\ locations[n].latitude = None
            /\ locations[n].longitude = None
            /\ locations[n].fips = <<>>
            /\ locations[n].adi_data = <<>>
            /\ \A k \in 1..Len(output) : output[k].street # locations[n].street
            /\ pc = "done" => Len(output) = RowsOfEligible(locations)

\* a PO box went through all three stages and the rows were written
C10_Witness ==
    /\ pc = "done"
    /\ Len(locations) = 2
    /\ ~can_geocode(locations[1])
    /\ Cardinality(StagesOf(1)) = 3
    /\ can_geocode(locations[2])
    /\ Len(output) > 0

====
